---- MODULE Spec2Model ----
(***************************************************************************)
(* A model of server.py: the auto-poster's scheduler.  The module-level    *)
(* state (posting_task, is_posting, config_data, queue_data, history_data) *)
(* is shared by the request handlers and by the posting_loop tasks, all    *)
(* running on one asyncio event loop: code between two awaits is atomic,   *)
(* and any other ready coroutine may run at an await.                      *)
(*                                                                         *)
(* Text is modelled as a sequence of one-character strings, so that        *)
(* split / strip / endswith are computed and not assumed.                  *)
(***************************************************************************)
EXTENDS Integers, Sequences, FiniteSets, TLC

VARIABLES
    posting_task,   \* the global posting_task: None or a task
    is_posting,     \* the global is_posting
    config_data,    \* the global config_data: the empty dict or a config
    queue_data,     \* the global queue_data: lines and current_index
    history_data,   \* the global history_data, newest first
    tasks,          \* every posting_loop task: where it is suspended, its locals
    stop_calls,     \* stop_posting handlers suspended in "await posting_task"
    config_calls,   \* save_config handlers suspended in the name lookup
    clock,          \* datetime.now(), as the number of entries recorded so far
    audit,          \* for each entry of history_data: the queue and index it was read at
    resp            \* the response returned by the step just taken (NoResp: none)

vars == <<posting_task, is_posting, config_data, queue_data, history_data,
          tasks, stop_calls, config_calls, clock, audit, resp>>

(***************************************************************************)
(* Bounds of the model.                                                    *)
(***************************************************************************)
MaxTasks == 3        \* posting_loop tasks ever created
MaxCycles == 1       \* history entries ever recorded (Spec)
MaxRotations == 3    \* history entries ever recorded (SpecRotation)
MaxTextLen == 3      \* characters of an uploaded text
MaxFailed == 1       \* failed entries held by the log at once (SpecHistory)
MaxEvictions == 2    \* entries recorded beyond the cap (SpecHistory)
MaxQueueLen == 3     \* entries of the queue (SpecCycle)

(***************************************************************************)
(* Program constants.                                                      *)
(***************************************************************************)
HistoryCap == 50
PollSeconds == 60
DefaultDelayMinutes == 5

None == "None"      \* None, where a string may stand
NoTask == 0         \* None, where a task may stand
NL == "\n"
Alphabet == {"a", " ", NL}
Whitespace == {" ", NL, "\t", "\r"}

TaskIds == 1..MaxTasks

(***************************************************************************)
(* str.split('\n'), str.strip(), str.endswith() and the list comprehension *)
(* of upload_file.                                                         *)
(***************************************************************************)
RECURSIVE Split(_)
Split(text) ==
    IF \A i \in 1..Len(text) : text[i] # NL
    THEN <<text>>
    ELSE LET k == CHOOSE i \in 1..Len(text) :
                      /\ text[i] = NL
                      /\ \A j \in 1..(i - 1) : text[j] # NL
         IN <<SubSeq(text, 1, k - 1)>> \o Split(SubSeq(text, k + 1, Len(text)))

RECURSIVE LStrip(_)
LStrip(s) ==
    IF s # <<>> /\ Head(s) \in Whitespace THEN LStrip(Tail(s)) ELSE s

RECURSIVE RStrip(_)
RStrip(s) ==
    IF s # <<>> /\ s[Len(s)] \in Whitespace
    THEN RStrip(SubSeq(s, 1, Len(s) - 1))
    ELSE s

Strip(s) == RStrip(LStrip(s))

RECURSIVE StripNonBlank(_)
StripNonBlank(parts) ==
    IF parts = <<>> THEN <<>>
    ELSE IF Strip(Head(parts)) # <<>>
         THEN <<Strip(Head(parts))>> \o StripNonBlank(Tail(parts))
         ELSE StripNonBlank(Tail(parts))

\* the comprehension without line.strip() on the lines it keeps
ParseLines_no_strip(text) ==
    SelectSeq(Split(text), LAMBDA part : Strip(part) # <<>>)

ParseLines(text) == StripNonBlank(Split(text))

EndsWith(s, suffix) ==
    /\ Len(s) >= Len(suffix)
    /\ SubSeq(s, Len(s) - Len(suffix) + 1, Len(s)) = suffix

TxtSuffix == <<".", "t", "x", "t">>

(***************************************************************************)
(* Inputs of the requests.                                                 *)
(***************************************************************************)
RECURSIVE TextsOfLen(_)
TextsOfLen(n) ==
    IF n = 0 THEN {<<>>}
    ELSE {<<c>> \o t : c \in Alphabet, t \in TextsOfLen(n - 1)}

Texts == UNION {TextsOfLen(n) : n \in 0..MaxTextLen}

\* "a\nb", "c" and a text of blank lines only
SampleTexts == {<<"a", NL, "b">>, <<"c">>, <<" ", NL>>}

Filenames == {<<"q", ".", "t", "x", "t">>, <<"q", ".", "c", "s", "v">>}

\* PostConfig(...).dict(): fb_token is required, the others default
PostConfig(token, uid, name) ==
    [fb_token |-> token, page_id |-> "", delay_minutes |-> DefaultDelayMinutes,
     mention_uid |-> uid, mention_name |-> name, prefix_text |-> ""]

Configs == {PostConfig("T", "", ""), PostConfig("T", "u1", "")}

\* the configs that need no name lookup
PlainConfigs == {config \in Configs : config.mention_uid = "" \/ config.mention_name # ""}

\* the configs submitted concurrently (SpecConfig)
ConfigInputs ==
    {PostConfig(token, uid, name) :
        token \in {"T", "T2"}, uid \in {"", "u1", "u2"}, name \in {"", "Bob"}}

\* the display name the remote service holds for a uid
DisplayName(uid) == IF uid = "u1" THEN "Ann" ELSE "Ben"

EmptyDict == [k \in {} |-> k]

NoResp == [op |-> "none", status |-> "none"]

Response(op, status) == [op |-> op, status |-> status]


PublishErrors == {"Facebook API Error: rejected"}

\* what "await post_to_facebook(...)" returns: (success, error)
PublishOutcomes ==
    {[success |-> TRUE, error |-> None]}
        \cup {[success |-> FALSE, error |-> e] : e \in PublishErrors}

(***************************************************************************)
(* posting_loop tasks.  pc is the await the task is suspended at:          *)
(*   unborn     not created yet                                            *)
(*   created    created by asyncio.create_task, not run yet                *)
(*   publish    in "await post_to_facebook(...)"                           *)
(*   delay      in "await asyncio.sleep(delay_minutes * 60)"               *)
(*   poll       in the empty-queue "await asyncio.sleep(60)"               *)
(*   backoff    in the "except Exception" "await asyncio.sleep(60)"        *)
(*   cancelled  ended by CancelledError                                    *)
(*   returned   left the while loop                                        *)
(***************************************************************************)
NoRead == [lines |-> <<>>, index |-> 0]

Suspended(pc, wait) ==
    [pc |-> pc, cancel |-> FALSE, wait |-> wait, current_line |-> <<>>, read_at |-> NoRead]

Unborn == Suspended("unborn", 0)

\* task.cancel(): CancelledError is due at the await the task is suspended at;
\* its locals are never read again
CancelRequested(task) ==
    [pc |-> task.pc, cancel |-> TRUE, wait |-> 0, current_line |-> <<>>, read_at |-> NoRead]

AlivePcs == {"created", "publish", "delay", "poll", "backoff"}
SleepPcs == {"delay", "poll", "backoff"}

Alive(t) == tasks[t].pc \in AlivePcs
Done(t) == tasks[t].pc \in {"cancelled", "returned"}
AliveTasks == {t \in TaskIds : Alive(t)}
FreeTasks == {t \in TaskIds : tasks[t].pc = "unborn"}

\* the loops that will run loop code again: alive, and no CancelledError pending
LiveLoops == {t \in AliveTasks : ~tasks[t].cancel}

Init ==
    /\ posting_task = NoTask
    /\ is_posting = FALSE
    /\ config_data = EmptyDict
    /\ queue_data = [lines |-> <<>>, current_index |-> 0]
    /\ history_data = <<>>
    /\ tasks = [t \in TaskIds |-> Unborn]
    /\ stop_calls = {}
    /\ config_calls = {}
    /\ clock = 0
    /\ audit = <<>>
    /\ resp = NoResp

\* start_posting without the "if is_posting" test
start_posting_no_running_test ==
    /\ UNCHANGED <<config_data, queue_data, history_data, stop_calls,
                   config_calls, clock, audit>>
    /\ IF DOMAIN config_data = {}
       THEN /\ resp' = Response("start", "400: Please configure settings first")
            /\ UNCHANGED <<posting_task, is_posting, tasks>>
       ELSE IF queue_data.lines = <<>>
       THEN /\ resp' = Response("start", "400: Please upload a post file first")
            /\ UNCHANGED <<posting_task, is_posting, tasks>>
       ELSE /\ FreeTasks # {}
            /\ LET t == CHOOSE u \in FreeTasks : \A v \in FreeTasks : u <= v
               IN /\ is_posting' = TRUE
                  /\ posting_task' = t
                  /\ tasks' = [tasks EXCEPT ![t] = Suspended("created", 0)]
            /\ resp' = Response("start", "success")

\* start_posting without the test of queue_data
start_posting_no_queue_test ==
    /\ UNCHANGED <<config_data, queue_data, history_data, stop_calls,
                   config_calls, clock, audit>>
    /\ IF is_posting
       THEN /\ resp' = Response("start", "already_running")
            /\ UNCHANGED <<posting_task, is_posting, tasks>>
       ELSE IF DOMAIN config_data = {}
       THEN /\ resp' = Response("start", "400: Please configure settings first")
            /\ UNCHANGED <<posting_task, is_posting, tasks>>
       ELSE /\ FreeTasks # {}
            /\ LET t == CHOOSE u \in FreeTasks : \A v \in FreeTasks : u <= v
               IN /\ is_posting' = TRUE
                  /\ posting_task' = t
                  /\ tasks' = [tasks EXCEPT ![t] = Suspended("created", 0)]
            /\ resp' = Response("start", "success")

(***************************************************************************)
(* POST /api/start-posting.  No await: one atomic step.                    *)
(***************************************************************************)
\* start_posting beginning every run at the first entry
start_posting_from_top ==
    /\ UNCHANGED <<config_data, history_data, stop_calls, config_calls, clock, audit>>
    /\ IF is_posting
       THEN /\ resp' = Response("start", "already_running")
            /\ UNCHANGED <<posting_task, is_posting, tasks, queue_data>>
       ELSE IF DOMAIN config_data = {}
       THEN /\ resp' = Response("start", "400: Please configure settings first")
            /\ UNCHANGED <<posting_task, is_posting, tasks, queue_data>>
       ELSE IF queue_data.lines = <<>>
       THEN /\ resp' = Response("start", "400: Please upload a post file first")
            /\ UNCHANGED <<posting_task, is_posting, tasks, queue_data>>
       ELSE /\ FreeTasks # {}
            /\ LET t == CHOOSE u \in FreeTasks : \A v \in FreeTasks : u <= v
               IN /\ is_posting' = TRUE
                  /\ posting_task' = t
                  /\ tasks' = [tasks EXCEPT ![t] = Suspended("created", 0)]
            /\ queue_data' = [queue_data EXCEPT !.current_index = 0]
            /\ resp' = Response("start", "success")

start_posting ==
    /\ UNCHANGED <<config_data, queue_data, history_data, stop_calls,
                   config_calls, clock, audit>>
    /\ IF is_posting
       THEN /\ resp' = Response("start", "already_running")
            /\ UNCHANGED <<posting_task, is_posting, tasks>>
       ELSE IF DOMAIN config_data = {}
       THEN /\ resp' = Response("start", "400: Please configure settings first")
            /\ UNCHANGED <<posting_task, is_posting, tasks>>
       ELSE IF queue_data.lines = <<>>
       THEN /\ resp' = Response("start", "400: Please upload a post file first")
            /\ UNCHANGED <<posting_task, is_posting, tasks>>
       ELSE /\ FreeTasks # {}
            /\ LET t == CHOOSE u \in FreeTasks : \A v \in FreeTasks : u <= v
               IN /\ is_posting' = TRUE
                  /\ posting_task' = t
                  /\ tasks' = [tasks EXCEPT ![t] = Suspended("created", 0)]
            /\ resp' = Response("start", "success")

(***************************************************************************)
(* POST /api/stop-posting.  One await: "await posting_task"; awaiting a    *)
(* task that is already done does not suspend.                             *)
(***************************************************************************)
StopResponse(found) == [op |-> "stop", status |-> "success", found |-> found]

\* stop_posting without the "if not is_posting" test
stop_posting_no_running_test ==
    /\ UNCHANGED <<config_data, queue_data, history_data, config_calls, clock, audit>>
    /\ is_posting' = FALSE
    /\ IF posting_task # NoTask
       THEN IF Done(posting_task)
            THEN /\ posting_task' = NoTask
                 /\ resp' = StopResponse(LiveLoops)
                 /\ UNCHANGED <<tasks, stop_calls>>
            ELSE /\ tasks' = [tasks EXCEPT ![posting_task] = CancelRequested(tasks[posting_task])]
                 /\ stop_calls' = stop_calls \cup
                        {[awaits |-> posting_task, found |-> LiveLoops]}
                 /\ resp' = NoResp
                 /\ UNCHANGED posting_task
       ELSE /\ resp' = StopResponse(LiveLoops)
            /\ UNCHANGED <<posting_task, tasks, stop_calls>>

stop_posting ==
    /\ UNCHANGED <<config_data, queue_data, history_data, config_calls, clock, audit>>
    /\ IF ~is_posting
       THEN /\ resp' = Response("stop", "not_running")
            /\ UNCHANGED <<posting_task, is_posting, tasks, stop_calls>>
       ELSE /\ is_posting' = FALSE
            /\ IF posting_task # NoTask
               THEN IF Done(posting_task)
                    THEN /\ posting_task' = NoTask
                         /\ resp' = StopResponse(LiveLoops)
                         /\ UNCHANGED <<tasks, stop_calls>>
                    ELSE /\ tasks' = [tasks EXCEPT ![posting_task] = CancelRequested(tasks[posting_task])]
                         /\ stop_calls' = stop_calls \cup
                                {[awaits |-> posting_task, found |-> LiveLoops]}
                         /\ resp' = NoResp
                         /\ UNCHANGED posting_task
               ELSE /\ resp' = StopResponse(LiveLoops)
                    /\ UNCHANGED <<posting_task, tasks, stop_calls>>

\* the awaited task has ended: "posting_task = None" and the return
stop_posting_resume(c) ==
    /\ c \in stop_calls
    /\ Done(c.awaits)
    /\ posting_task' = NoTask
    /\ stop_calls' = stop_calls \ {c}
    /\ resp' = StopResponse(c.found)
    /\ UNCHANGED <<is_posting, config_data, queue_data, history_data, tasks,
                   config_calls, clock, audit>>


(***************************************************************************)
(* posting_loop.  A cancelled task gets CancelledError at the await it is  *)
(* suspended at; CancelledError is not an Exception, so neither the try of *)
(* post_to_facebook nor the try of the loop catches it: the task ends.     *)
(***************************************************************************)
\* the CancelledError of a publish in flight caught like an Exception: the
\* cycle is recorded as failed and the cursor advances before the task ends
loop_cancelled_recorded(t) ==
    /\ Alive(t)
    /\ tasks[t].cancel
    /\ tasks' = [tasks EXCEPT ![t] = Suspended("cancelled", 0)]
    /\ resp' = NoResp
    /\ IF tasks[t].pc = "publish" /\ queue_data.lines # <<>>
       THEN /\ history_data' =
                    <<[content |-> tasks[t].current_line,
                       line_number |-> queue_data.current_index + 1,
                       status |-> "failed",
                       error_message |-> "cancelled",
                       posted_at |-> clock + 1]>> \o history_data
            /\ audit' = <<tasks[t].read_at>> \o audit
            /\ clock' = clock + 1
            /\ queue_data' = [queue_data EXCEPT !.current_index =
                                (@ + 1) % Len(queue_data.lines)]
       ELSE UNCHANGED <<history_data, audit, clock, queue_data>>
    /\ UNCHANGED <<posting_task, is_posting, config_data, stop_calls, config_calls>>

loop_cancelled(t) ==
    /\ Alive(t)
    /\ tasks[t].cancel
    /\ tasks' = [tasks EXCEPT ![t] = Suspended("cancelled", 0)]
    /\ resp' = NoResp
    /\ UNCHANGED <<posting_task, is_posting, config_data, queue_data, history_data,
                   stop_calls, config_calls, clock, audit>>

\* lines[current_index]: Python accepts -len .. len-1, else IndexError
Readable(q) ==
    /\ q.current_index < Len(q.lines)
    /\ q.current_index >= 0 - Len(q.lines)

ReadLine(q) ==
    IF q.current_index >= 0
    THEN q.lines[q.current_index + 1]
    ELSE q.lines[Len(q.lines) + q.current_index + 1]

\* config_data.get('delay_minutes', 5) * 60
DelaySeconds(config) ==
    IF "delay_minutes" \in DOMAIN config
    THEN config.delay_minutes * 60
    ELSE DefaultDelayMinutes * 60

\* from the first run or a finished sleep to the next await: the while test,
\* the empty-queue test, the read and the call of post_to_facebook
loop_iterate(t) ==
    /\ tasks[t].pc \in {"created"} \cup SleepPcs
    /\ ~tasks[t].cancel
    /\ tasks' = [tasks EXCEPT ![t] =
            IF ~is_posting THEN Suspended("returned", 0)
            ELSE IF queue_data.lines = <<>> THEN Suspended("poll", PollSeconds)
            ELSE IF ~Readable(queue_data) THEN Suspended("backoff", PollSeconds)
            ELSE [pc |-> "publish", cancel |-> FALSE, wait |-> 0,
                  current_line |-> ReadLine(queue_data),
                  read_at |-> [lines |-> queue_data.lines,
                               index |-> queue_data.current_index]]]
    /\ resp' = NoResp
    /\ UNCHANGED <<posting_task, is_posting, config_data, queue_data, history_data,
                   stop_calls, config_calls, clock, audit>>

HistoryEntry(line, q, outcome, now) ==
    [content |-> line,
     line_number |-> q.current_index + 1,
     status |-> IF outcome.success THEN "success" ELSE "failed",
     error_message |-> outcome.error,
     posted_at |-> now]

\* the cut keeps one entry too many
Record_off_by_one(history, entry) ==
    LET inserted == <<entry>> \o history
    IN IF Len(inserted) > HistoryCap + 1
       THEN SubSeq(inserted, 1, HistoryCap + 1)
       ELSE inserted

\* the entry put at the end of the list, the cut taken from its front
Record_at_end(history, entry) ==
    LET appended == history \o <<entry>>
    IN IF Len(appended) > HistoryCap
       THEN SubSeq(appended, Len(appended) - HistoryCap + 1, Len(appended))
       ELSE appended

\* history_data.insert(0, entry) and the cut to 50
Record(history, entry) ==
    LET inserted == <<entry>> \o history
    IN IF Len(inserted) > HistoryCap THEN SubSeq(inserted, 1, HistoryCap) ELSE inserted

\* the modulus one too large: the cursor wraps one step late
Advance_wraps_late(q) ==
    [q EXCEPT !.current_index = (q.current_index + 1) % (Len(q.lines) + 1)]

\* (current_index + 1) % len(lines)
Advance(q) ==
    [q EXCEPT !.current_index = (q.current_index + 1) % Len(q.lines)]

FailedCount(history) ==
    Cardinality({i \in 1..Len(history) : history[i].status = "failed"})

\* a failed publish is taken for a fault: recorded, but the cursor stays and the
\* loop backs off
loop_publish_done_failure_stalls(t, maxRecords, maxFailed) ==
    /\ tasks[t].pc = "publish"
    /\ ~tasks[t].cancel
    /\ clock < maxRecords
    /\ \E outcome \in PublishOutcomes :
        /\ outcome.success \/ FailedCount(history_data) < maxFailed
        /\ history_data' = Record(history_data,
                HistoryEntry(tasks[t].current_line, queue_data, outcome, clock + 1))
        /\ audit' = Record(audit, tasks[t].read_at)
        /\ IF Len(queue_data.lines) = 0 \/ ~outcome.success
           THEN /\ tasks' = [tasks EXCEPT ![t] = Suspended("backoff", PollSeconds)]
                /\ UNCHANGED queue_data
           ELSE /\ queue_data' = Advance(queue_data)
                /\ tasks' = [tasks EXCEPT ![t] =
                                Suspended("delay", DelaySeconds(config_data))]
    /\ clock' = clock + 1
    /\ resp' = NoResp
    /\ UNCHANGED <<posting_task, is_posting, config_data, stop_calls, config_calls>>

\* a loop that is not cyclic: past the last entry it clears is_posting
loop_publish_done_stops_at_end(t, maxRecords, maxFailed) ==
    /\ tasks[t].pc = "publish"
    /\ ~tasks[t].cancel
    /\ clock < maxRecords
    /\ \E outcome \in PublishOutcomes :
        /\ outcome.success \/ FailedCount(history_data) < maxFailed
        /\ history_data' = Record(history_data,
                HistoryEntry(tasks[t].current_line, queue_data, outcome, clock + 1))
        /\ audit' = Record(audit, tasks[t].read_at)
    /\ clock' = clock + 1
    /\ IF Len(queue_data.lines) = 0
       THEN /\ tasks' = [tasks EXCEPT ![t] = Suspended("backoff", PollSeconds)]
            /\ UNCHANGED <<queue_data, is_posting>>
       ELSE /\ queue_data' = Advance(queue_data)
            /\ is_posting' = (is_posting /\ Advance(queue_data).current_index # 0)
            /\ tasks' = [tasks EXCEPT ![t] = Suspended("delay", DelaySeconds(config_data))]
    /\ resp' = NoResp
    /\ UNCHANGED <<posting_task, config_data, stop_calls, config_calls>>

\* post_to_facebook returns: the entry is recorded, the cursor advances and the
\* task sleeps for the configured delay (no await in between)
loop_publish_done(t, maxRecords, maxFailed) ==
    /\ tasks[t].pc = "publish"
    /\ ~tasks[t].cancel
    /\ clock < maxRecords
    /\ \E outcome \in PublishOutcomes :
        /\ outcome.success \/ FailedCount(history_data) < maxFailed
        /\ history_data' = Record(history_data,
                HistoryEntry(tasks[t].current_line, queue_data, outcome, clock + 1))
        /\ audit' = Record(audit, tasks[t].read_at)
    /\ clock' = clock + 1
    /\ IF Len(queue_data.lines) = 0
       THEN /\ tasks' = [tasks EXCEPT ![t] = Suspended("backoff", PollSeconds)]
            /\ UNCHANGED queue_data
       ELSE /\ queue_data' = Advance(queue_data)
            /\ tasks' = [tasks EXCEPT ![t] = Suspended("delay", DelaySeconds(config_data))]
    /\ resp' = NoResp
    /\ UNCHANGED <<posting_task, is_posting, config_data, stop_calls, config_calls>>

(***************************************************************************)
(* POST /api/config.  One await, the name lookup, taken when the config    *)
(* has a mention_uid and no mention_name.                                  *)
(***************************************************************************)
save_config(config) ==
    /\ config_data' = config
    /\ IF config.mention_uid # "" /\ config.mention_name = ""
       THEN /\ config_calls' = config_calls \cup
                    {[uid |-> config.mention_uid, token |-> config.fb_token]}
            /\ resp' = NoResp
       ELSE /\ resp' = Response("config", "success")
            /\ UNCHANGED config_calls
    /\ UNCHANGED <<posting_task, is_posting, queue_data, history_data, tasks,
                   stop_calls, clock, audit>>

\* get_facebook_user_name returns the name, or None / "" on any failure
save_config_resume(c, found) ==
    /\ c \in config_calls
    /\ config_calls' = config_calls \ {c}
    /\ IF found
       THEN config_data' = [config_data EXCEPT !.mention_name = DisplayName(c.uid)]
       ELSE UNCHANGED config_data
    /\ resp' = Response("config", "success")
    /\ UNCHANGED <<posting_task, is_posting, queue_data, history_data, tasks,
                   stop_calls, clock, audit>>

\* upload_file installing the lines without resetting current_index
upload_file_keeps_index(filename, text) ==
    /\ IF ~EndsWith(filename, TxtSuffix)
       THEN /\ resp' = Response("upload", "400: Only .txt files are allowed")
            /\ UNCHANGED queue_data
       ELSE LET lines == ParseLines(text)
            IN IF lines = <<>>
               THEN /\ resp' = Response("upload", "400: File is empty")
                    /\ UNCHANGED queue_data
               ELSE /\ queue_data' = [queue_data EXCEPT !.lines = lines]
                    /\ resp' = Response("upload", "success")
    /\ UNCHANGED <<posting_task, is_posting, config_data, history_data, tasks,
                   stop_calls, config_calls, clock, audit>>

\* upload_file without the "if not lines" test
upload_file_no_empty_test(filename, text) ==
    /\ IF ~EndsWith(filename, TxtSuffix)
       THEN /\ resp' = Response("upload", "400: Only .txt files are allowed")
            /\ UNCHANGED queue_data
       ELSE /\ queue_data' = [lines |-> ParseLines(text), current_index |-> 0]
            /\ resp' = Response("upload", "success")
    /\ UNCHANGED <<posting_task, is_posting, config_data, history_data, tasks,
                   stop_calls, config_calls, clock, audit>>

(***************************************************************************)
(* POST /api/upload-file.  Its one await, file.read(), comes before the    *)
(* handler touches the shared state: the parse and the install are atomic. *)
(***************************************************************************)
upload_file(filename, text) ==
    /\ IF ~EndsWith(filename, TxtSuffix)
       THEN /\ resp' = Response("upload", "400: Only .txt files are allowed")
            /\ UNCHANGED queue_data
       ELSE LET lines == ParseLines(text)
            IN IF lines = <<>>
               THEN /\ resp' = Response("upload", "400: File is empty")
                    /\ UNCHANGED queue_data
               ELSE /\ queue_data' = [lines |-> lines, current_index |-> 0]
                    /\ resp' = Response("upload", "success")
    /\ UNCHANGED <<posting_task, is_posting, config_data, history_data, tasks,
                   stop_calls, config_calls, clock, audit>>

(***************************************************************************)
(* The scheduler under every interleaving of the requests and the loops.   *)
(* The configs are those saved without a name lookup, the uploads are the  *)
(* sample texts and every publish succeeds (SpecRotation and SpecHistory   *)
(* have the failures).                                                     *)
(***************************************************************************)
Next ==
    \/ start_posting
    \/ stop_posting
    \/ \E c \in stop_calls : stop_posting_resume(c)
    \/ \E t \in TaskIds : loop_cancelled(t)
    \/ \E t \in TaskIds : loop_iterate(t)
    \/ \E t \in TaskIds : loop_publish_done(t, MaxCycles, 0)
    \/ \E config \in PlainConfigs : save_config(config)
    \/ \E filename \in Filenames, text \in SampleTexts : upload_file(filename, text)

Spec == Init /\ [][Next]_vars

(***************************************************************************)
(* One loop filling the history log past its cap: the state after a config *)
(* was saved and "a\nb" uploaded, then start_posting and the cycles.       *)
(***************************************************************************)
InitHistory ==
    /\ posting_task = NoTask
    /\ is_posting = FALSE
    /\ config_data \in PlainConfigs
    /\ queue_data = [lines |-> ParseLines(<<"a", NL, "b">>), current_index |-> 0]
    /\ history_data = <<>>
    /\ tasks = [t \in TaskIds |-> Unborn]
    /\ stop_calls = {}
    /\ config_calls = {}
    /\ clock = 0
    /\ audit = <<>>
    /\ resp = Response("upload", "success")

NextHistory ==
    \/ start_posting
    \/ \E t \in TaskIds : loop_iterate(t)
    \/ \E t \in TaskIds : loop_publish_done(t, HistoryCap + MaxEvictions, MaxFailed)

SpecHistory == InitHistory /\ [][NextHistory]_vars

(***************************************************************************)
(* One loop rotating through the queue for several cycles, with uploads    *)
(* and config saves at every await.                                        *)
(***************************************************************************)
NextRotation ==
    \/ start_posting
    \/ \E t \in TaskIds : loop_iterate(t)
    \/ \E t \in TaskIds : loop_publish_done(t, MaxRotations, MaxRotations)
    \/ \E config \in PlainConfigs : save_config(config)
    \/ \E filename \in Filenames, text \in SampleTexts : upload_file(filename, text)

SpecRotation == Init /\ [][NextRotation]_vars

(***************************************************************************)
(* Uploads of every text up to MaxTextLen characters, under a running      *)
(* loop whose cursor has moved and after it was stopped.  The initial      *)
(* state is the one reached by saving a config, uploading "a\nb", starting *)
(* and completing one cycle.                                               *)
(***************************************************************************)
InitUpload ==
    /\ posting_task = 1
    /\ is_posting = TRUE
    /\ config_data \in PlainConfigs
    /\ queue_data = [lines |-> ParseLines(<<"a", NL, "b">>), current_index |-> 1]
    /\ history_data =
            <<HistoryEntry(<<"a">>, [lines |-> ParseLines(<<"a", NL, "b">>),
                                      current_index |-> 0],
                           [success |-> TRUE, error |-> None], 1)>>
    /\ tasks = [t \in TaskIds |->
                    IF t = 1 THEN Suspended("delay", DelaySeconds(config_data))
                    ELSE Unborn]
    /\ stop_calls = {}
    /\ config_calls = {}
    /\ clock = 1
    /\ audit = <<[lines |-> ParseLines(<<"a", NL, "b">>), index |-> 0]>>
    /\ resp = NoResp

NextUpload ==
    \/ stop_posting
    \/ \E c \in stop_calls : stop_posting_resume(c)
    \/ \E t \in TaskIds : loop_cancelled(t)
    \/ \E t \in TaskIds : loop_iterate(t)
    \/ \E filename \in Filenames, text \in Texts : upload_file(filename, text)

SpecUpload == InitUpload /\ [][NextUpload]_vars

(***************************************************************************)
(* One loop going round queues of 1 .. MaxQueueLen entries twice, with no  *)
(* upload in between; any cycle may fail.  The initial state is the one    *)
(* after a config was saved and a text of n lines "a", "aa", ... uploaded. *)
(***************************************************************************)
RECURSIVE CycleText(_)
CycleText(n) ==
    IF n = 1 THEN <<"a">>
    ELSE CycleText(n - 1) \o <<NL>> \o [j \in 1..n |-> "a"]

InitCycle ==
    /\ posting_task = NoTask
    /\ is_posting = FALSE
    /\ config_data \in PlainConfigs
    /\ queue_data \in {[lines |-> ParseLines(CycleText(n)), current_index |-> 0] :
                            n \in 1..MaxQueueLen}
    /\ history_data = <<>>
    /\ tasks = [t \in TaskIds |-> Unborn]
    /\ stop_calls = {}
    /\ config_calls = {}
    /\ clock = 0
    /\ audit = <<>>
    /\ resp = Response("upload", "success")

NextCycle ==
    \/ start_posting
    \/ \E t \in TaskIds : loop_iterate(t)
    \/ \E t \in TaskIds : loop_publish_done(t, 2 * MaxQueueLen, 2 * MaxQueueLen)

SpecCycle == InitCycle /\ [][NextCycle]_vars

(***************************************************************************)
(* Concurrent POST /api/config requests: each may suspend in its name      *)
(* lookup while others install their configs and complete.                 *)
(***************************************************************************)
NextConfig ==
    \/ \E config \in ConfigInputs : save_config(config)
    \/ \E c \in config_calls, found \in BOOLEAN : save_config_resume(c, found)

SpecConfig == Init /\ [][NextConfig]_vars

TypeOK ==
    /\ posting_task \in TaskIds \cup {NoTask}
    /\ is_posting \in BOOLEAN
    /\ Len(audit) = Len(history_data)
    /\ clock \in Nat
    /\ \A c \in stop_calls : \A d \in stop_calls : c.awaits = d.awaits => c = d


(***************************************************************************)
(* The claims.                                                             *)
(***************************************************************************)

\* C1: in every reachable state at most one posting_loop task is alive, so no
\* two loop instances read or advance the queue cursor.  (Stated of the loops
\* that will run loop code again: a task ending on a pending CancelledError
\* is not counted.)
C1_AtMostOneLoop == Cardinality(LiveLoops) <= 1

\* C2: when a stop() that found the scheduler Running returns success, the
\* loops that were live when it began have ended, the handle is cleared and
\* the run flag is Stopped.
C2_StopSuccessMeansStopped ==
    (resp.op = "stop" /\ resp.status = "success") =>
        /\ \A t \in resp.found : Done(t)
        /\ posting_task = NoTask
        /\ ~is_posting

\* C3: start() while Running returns already_running, spawns no task and
\* leaves the run flag, the handle, the queue, the config and the history
\* unchanged.
C3_StartWhileRunning ==
    [][(resp'.op = "start" /\ is_posting) =>
        /\ resp' = Response("start", "already_running")
        /\ UNCHANGED <<is_posting, posting_task, tasks, queue_data,
                       config_data, history_data>>]_vars

C3_Witness ==
    /\ resp = Response("start", "already_running")
    /\ is_posting
    /\ Cardinality(AliveTasks) = 1

\* C4: start() while Stopped is rejected without a config, and rejected with
\* an empty queue, the flag staying Stopped and no task being spawned; with
\* a config and a non-empty queue it sets the flag, spawns exactly one loop
\* task and returns success.
C4_StartWhileStopped ==
    [][(resp'.op = "start" /\ ~is_posting) =>
        /\ (DOMAIN config_data = {} \/ queue_data.lines = <<>>) =>
              /\ resp'.status =
                    IF DOMAIN config_data = {}
                    THEN "400: Please configure settings first"
                    ELSE "400: Please upload a post file first"
              /\ ~is_posting'
              /\ UNCHANGED <<tasks, posting_task>>
        /\ (DOMAIN config_data # {} /\ queue_data.lines # <<>>) =>
              /\ resp'.status = "success"
              /\ is_posting'
              /\ \E t \in TaskIds :
                    /\ tasks[t].pc = "unborn"
                    /\ tasks'[t].pc = "created"
                    /\ posting_task' = t
                    /\ \A u \in TaskIds \ {t} : tasks'[u] = tasks[u]]_vars

C4_Witness ==
    /\ resp = Response("start", "success")
    /\ is_posting
    /\ posting_task # NoTask
    /\ tasks[posting_task].pc = "created"

\* C5: stop() called while Stopped returns not_running and changes nothing:
\* run flag, handle, queue, cursor, config and history stay as they were.
C5_StopWhileStopped ==
    [][(stop_posting /\ ~is_posting) =>
        /\ resp' = Response("stop", "not_running")
        /\ UNCHANGED <<is_posting, posting_task, tasks, stop_calls, queue_data,
                       config_data, history_data>>]_vars

C5_Witness ==
    /\ resp = Response("stop", "not_running")
    /\ ~is_posting
    /\ queue_data.lines # <<>>
    /\ DOMAIN config_data # {}

\* C6: the history log never holds more than 50 entries; recording into a
\* log of 50 removes the oldest (last) entry and puts the new one in front.
C6_HistoryBounded ==
    /\ [](Len(history_data) <= HistoryCap)
    /\ [][(clock' = clock + 1 /\ Len(history_data) = HistoryCap) =>
            /\ Len(history_data') = HistoryCap
            /\ history_data'[1].posted_at = clock'
            /\ \A i \in 1..(HistoryCap - 1) : history_data'[i + 1] = history_data[i]]_vars

C6_Witness ==
    /\ Len(history_data) = HistoryCap
    /\ clock > HistoryCap
    /\ history_data[1].posted_at = clock
    /\ history_data[HistoryCap].posted_at = clock - HistoryCap + 1

\* C7: with a non-empty queue the cursor is within 0 .. len-1, also when an
\* upload replaces the queue under a suspended loop; no loop read is out of
\* range (no loop is in the IndexError backoff, every read was in range).
C7_CursorInRange ==
    /\ queue_data.lines # <<>> =>
          /\ 0 <= queue_data.current_index
          /\ queue_data.current_index < Len(queue_data.lines)
    /\ \A t \in TaskIds :
          /\ tasks[t].pc # "backoff"
          /\ (tasks[t].pc = "publish" /\ ~tasks[t].cancel) =>
                /\ 0 <= tasks[t].read_at.index
                /\ tasks[t].read_at.index < Len(tasks[t].read_at.lines)

\* an upload installed a shorter queue while a loop was suspended in a publish
\* of an entry beyond the new length
C7_Witness ==
    \E t \in TaskIds :
        /\ tasks[t].pc = "publish"
        /\ ~tasks[t].cancel
        /\ tasks[t].read_at.lines # queue_data.lines
        /\ tasks[t].read_at.index >= Len(queue_data.lines)

\* C8: every history entry's line_number is the position its content was read
\* at: content is entry number line_number of the queue installed at the read.
C8_LineNumberIsReadPosition ==
    \A i \in 1..Len(history_data) :
        /\ history_data[i].line_number = audit[i].index + 1
        /\ history_data[i].line_number <= Len(audit[i].lines)
        /\ audit[i].lines[history_data[i].line_number] = history_data[i].content


\* C9: a cycle whose publish fails records exactly one entry, with status
\* failed and the returned error text, advances the cursor by one cyclic step
\* as a successful cycle does, leaves the run flag as it is, and the loop goes
\* to the configured delay and from there to the next cycle.
C9_FailedCycleAdvances ==
    /\ [][(clock' = clock + 1) =>
            /\ Len(history_data') =
                    IF Len(history_data) < HistoryCap
                    THEN Len(history_data) + 1
                    ELSE HistoryCap
            /\ \A i \in 2..Len(history_data') : history_data'[i] = history_data[i - 1]
            /\ history_data'[1].status \in {"success", "failed"}
            /\ history_data'[1].status = "failed" =>
                    history_data'[1].error_message \in PublishErrors
            /\ queue_data'.lines = queue_data.lines
            /\ queue_data'.current_index =
                    (queue_data.current_index + 1) % Len(queue_data.lines)
            /\ is_posting' = is_posting
            /\ \E t \in TaskIds :
                    /\ tasks[t].pc = "publish"
                    /\ tasks'[t].pc = "delay"
                    /\ tasks'[t].wait = config_data.delay_minutes * 60
                    /\ \A u \in TaskIds \ {t} : tasks'[u] = tasks[u]]_vars
    /\ [][\A t \in TaskIds :
            (/\ tasks[t].pc = "delay"
             /\ tasks'[t].pc # "delay"
             /\ is_posting
             /\ ~tasks[t].cancel) =>
                /\ tasks'[t].pc = "publish"
                /\ tasks'[t].current_line =
                        queue_data.lines[queue_data.current_index + 1]]_vars

\* after a failed cycle the cursor has moved on and the loop is publishing the
\* next entry
C9_Witness ==
    /\ history_data # <<>>
    /\ history_data[1].status = "failed"
    /\ history_data[1].error_message \in PublishErrors
    /\ queue_data.lines = audit[1].lines
    /\ queue_data.current_index = 1
    /\ is_posting
    /\ \E t \in TaskIds : tasks[t].pc = "publish" /\ tasks[t].read_at.index = 1

BlankOnly(text) == \A i \in 1..Len(text) : text[i] \in Whitespace

BlankTexts == {text \in Texts : BlankOnly(text)}

\* C10: an upload whose text has no non-blank line is rejected and leaves the
\* installed queue entries and the cursor as they were, also while Running.
C10_BlankUploadRejected ==
    [][\A filename \in Filenames, text \in BlankTexts :
        upload_file(filename, text) =>
            /\ resp'.status \in {"400: File is empty",
                                 "400: Only .txt files are allowed"}
            /\ (EndsWith(filename, TxtSuffix) => resp'.status = "400: File is empty")
            /\ queue_data' = queue_data]_vars

\* a blank upload was rejected while a loop runs on a queue whose cursor has
\* moved
C10_Witness ==
    /\ resp = Response("upload", "400: File is empty")
    /\ is_posting
    /\ LiveLoops # {}
    /\ Len(queue_data.lines) = 2
    /\ queue_data.current_index = 1

\* The trimmed non-blank lines of a text, by position: a line lies between two
\* neighbouring line breaks (or an end of the text); it counts when it holds a
\* character that is not whitespace, and its trimmed content runs from its
\* first such character to its last.
LineBreaks(text) == {0, Len(text) + 1} \cup {i \in 1..Len(text) : text[i] = NL}

LineSpans(text) ==
    {span \in LineBreaks(text) \X LineBreaks(text) :
        /\ span[1] < span[2]
        /\ \A k \in LineBreaks(text) : ~(span[1] < k /\ k < span[2])}

Inked(text, span) ==
    {i \in (span[1] + 1)..(span[2] - 1) : text[i] \notin Whitespace}

Least(S) == CHOOSE x \in S : \A y \in S : x <= y

Greatest(S) == CHOOSE x \in S : \A y \in S : x >= y

TrimmedLines(text) ==
    LET spans == {span \in LineSpans(text) : Inked(text, span) # {}}
        nth(k) == CHOOSE span \in spans :
                      Cardinality({other \in spans : other[1] < span[1]}) = k - 1
    IN [k \in 1..Cardinality(spans) |->
            SubSeq(text, Least(Inked(text, nth(k))), Greatest(Inked(text, nth(k))))]

C13_CyclicClosure ==
    LET n == Len(queue_data.lines)
        CursorAfter(i) == IF i = 1 THEN queue_data.current_index
                          ELSE audit[i - 1].index
    IN \A i \in 1..Len(audit) :
         (i + n - 1 <= Len(audit)) =>
            /\ CursorAfter(i) = audit[i + n - 1].index
            /\ {audit[j].index : j \in i..(i + n - 1)} = 0..(n - 1)
            /\ \A j \in i..(i + n - 2) :
                    audit[j].index = (audit[j + 1].index + 1) % n

\* a queue of three entries gone round from a cursor that was not 0, one of
\* the three cycles having failed
C13_Witness ==
    /\ Len(queue_data.lines) = 3
    /\ Len(audit) >= 5
    /\ queue_data.current_index = 2
    /\ audit[3].index = 2
    /\ \E i \in 1..3 : history_data[i].status = "failed"

\* C14: outside the window in which a stop() call waits for the loop it has
\* cancelled, the run flag is Running exactly when posting_task refers to a
\* live loop task; Stopped means no loop task is alive and the handle is
\* cleared.
C14_RunningIffLiveHandle ==
    (stop_calls = {}) =>
        /\ is_posting <=> (posting_task # NoTask /\ posting_task \in LiveLoops)
        /\ ~is_posting => (AliveTasks = {} /\ posting_task = NoTask)

\* C15: every read of the loop takes an entry of the queue installed at that
\* moment, never one of a replaced sequence; and when the queue was replaced
\* since the loop's previous read (the last completed cycle read another
\* sequence), the read takes the entry at index 0 of the new sequence.
C15_NextReadIsFirstOfNewQueue ==
    [][\A t \in TaskIds :
        (tasks[t].pc # "publish" /\ tasks'[t].pc = "publish") =>
            /\ tasks'[t].read_at.lines = queue_data.lines
            /\ tasks'[t].current_line \in
                    {queue_data.lines[i] : i \in 1..Len(queue_data.lines)}
            /\ (is_posting /\ audit # <<>> /\ audit[1].lines # queue_data.lines) =>
                    /\ tasks'[t].read_at.index = 0
                    /\ tasks'[t].current_line = queue_data.lines[1]]_vars

\* C16: under any interleaving of set(config) calls the stored config is one
\* submitted config in its entirety, or that config with the display name
\* looked up for its own mention_uid filled in; no call writes a field into a
\* config that another call installed.
C16_ConfigIsOneSubmission ==
    (config_data # EmptyDict) =>
        \E config \in ConfigInputs :
            \/ config_data = config
            \/ /\ config.mention_uid # ""
               /\ config.mention_name = ""
               /\ config_data =
                    [config EXCEPT !.mention_name = DisplayName(config.mention_uid)]

\* C17: the history log changes only by a record step, which puts the new
\* entry in front, keeps every earlier entry as it was and in the same order
\* one place further back, and drops entries only from the tail (the oldest,
\* once the cap is passed); so the log is ordered by cycle completion, most
\* recent first.
C17_HistoryAppendOnly ==
    /\ [][(history_data' # history_data \/ clock' # clock) =>
            /\ clock' = clock + 1
            /\ history_data' # <<>>
            /\ history_data'[1].posted_at = clock'
            /\ \A i \in 2..Len(history_data') : history_data'[i] = history_data[i - 1]
            /\ Len(history_data') >= Len(history_data)
            /\ Len(history_data') < Len(history_data) + 1 =>
                    Len(history_data) = HistoryCap]_vars
    /\ [](\A i \in 1..(Len(history_data) - 1) :
            history_data[i].posted_at > history_data[i + 1].posted_at)

\* a full log that has lost its oldest entries from the tail and still holds
\* an earlier failed entry behind newer ones
C17_Witness ==
    /\ Len(history_data) = HistoryCap
    /\ history_data[HistoryCap].posted_at = MaxEvictions + 1
    /\ history_data[1].posted_at = HistoryCap + MaxEvictions
    /\ \E i \in 2..(HistoryCap - 1) : history_data[i].status = "failed"

\* C18: a queue that is non-empty never becomes empty again; whenever the run
\* flag is Running the queue is non-empty; and no loop is ever in the
\* empty-queue poll wait.
C18_QueueStaysNonEmpty ==
    /\ [][queue_data.lines # <<>> => queue_data'.lines # <<>>]_vars
    /\ [](is_posting => queue_data.lines # <<>>)
    /\ [](\A t \in TaskIds : tasks[t].pc # "poll")

\* under a running loop that has completed a cycle the queue was replaced by
\* another non-empty one, and the loop's next iteration went to the publish
C18_Witness ==
    /\ is_posting
    /\ queue_data.lines # <<>>
    /\ resp = NoResp
    /\ history_data # <<>>
    /\ \E t \in TaskIds :
            /\ tasks[t].pc = "publish"
            /\ tasks[t].read_at.lines = queue_data.lines
            /\ tasks[t].read_at.lines # audit[1].lines

\* C19: a publish call that was begun ends in one of two ways: cut off by the
\* cancellation of stop(), with no history entry, no cursor advance and the
\* queue untouched; or completed, with one entry recorded and the cursor
\* advanced one cyclic step.  Every step that records an entry advances the
\* cursor and every step that advances the cursor records an entry, so the
\* records and the advances are equal in number and the publish calls begun
\* exceed them only by the calls cut off or still in flight.
C19_CutOffCycleRecordsNothing ==
    /\ [][\A t \in TaskIds :
            (tasks[t].pc = "publish" /\ tasks'[t].pc # "publish") =>
                \/ /\ tasks[t].cancel
                   /\ tasks'[t].pc = "cancelled"
                   /\ UNCHANGED <<history_data, queue_data, clock>>
                \/ /\ ~tasks[t].cancel
                   /\ tasks'[t].pc = "delay"
                   /\ clock' = clock + 1
                   /\ history_data'[1].posted_at = clock'
                   /\ queue_data'.current_index =
                          (queue_data.current_index + 1) % Len(queue_data.lines)]_vars
    /\ [][(clock' # clock \/ history_data' # history_data) =>
            /\ clock' = clock + 1
            /\ \E t \in TaskIds :
                    /\ tasks[t].pc = "publish"
                    /\ ~tasks[t].cancel
                    /\ tasks'[t].pc = "delay"
            /\ queue_data' = [queue_data EXCEPT !.current_index =
                                (@ + 1) % Len(queue_data.lines)]]_vars

\* stop() has cancelled a loop whose publish call is in flight, after an
\* earlier cycle completed: the call is begun and will not be recorded
C19_Witness ==
    /\ ~is_posting
    /\ stop_calls # {}
    /\ clock = 1
    /\ \E t \in TaskIds : tasks[t].pc = "publish" /\ tasks[t].cancel

\* C20: no step of start() or stop() changes the queue entries, the cursor,
\* the config or the history; and the first read of a newly started loop is
\* at the cursor as it stands, so a start after a stop goes on from where the
\* last completed cycle left the cursor, not from position 0.
C20_StartStopFrame ==
    /\ [][(start_posting \/ stop_posting
                \/ \E c \in stop_calls : stop_posting_resume(c)) =>
            UNCHANGED <<queue_data, config_data, history_data>>]_vars
    /\ [][\A t \in TaskIds :
            (tasks[t].pc = "created" /\ tasks'[t].pc = "publish") =>
                /\ tasks'[t].read_at.index = queue_data.current_index
                /\ tasks'[t].current_line =
                        queue_data.lines[queue_data.current_index + 1]]_vars

\* the first loop completed the cycle of entry 0 and was stopped; the loop of
\* the next start is publishing entry 1
C20_Witness ==
    /\ history_data # <<>>
    /\ audit[1].index = 0
    /\ Done(1)
    /\ is_posting
    /\ posting_task = 2
    /\ tasks[2].pc = "publish"
    /\ tasks[2].read_at = [lines |-> audit[1].lines, index |-> 1]
    /\ queue_data = [lines |-> audit[1].lines, current_index |-> 1]

====
